---- MODULE Spec2Model ----
(***************************************************************************)
(* A model of inception (src/__init__.py): a document store kept in one    *)
(* relational table (id, collection, document).                            *)
(*                                                                         *)
(* The state is the table as the engine holds it after the last commit     *)
(* (rows, in rowid order, and the AUTOINCREMENT counter), the class of the *)
(* repository object (Database over sqlite3, MySQLDatabase over MySQLdb)   *)
(* and how the last public call ended.  Every public method                *)
(* is one action; its effect is an operator named after the method, so     *)
(* that the properties below can apply a method to any reachable table.    *)
(*                                                                         *)
(* Spec and SpecMySQL use the repository the way the module's doctest      *)
(* does: built without a host app (app=None), so that _dbget opens a       *)
(* connection of its own for each call, over a database that _dbinit has   *)
(* created.  SpecHosted adds the host: the repository may be built again   *)
(* over the same database with an app, whose application contexts begin    *)
(* and end; `context` tells whether one is active, `g` is its slot for     *)
(* attributes and `connections` the connections opened in it, open or      *)
(* closed.  `high` is a history variable: the largest id a row of the      *)
(* table has had since the table was created.                              *)
(***************************************************************************)
EXTENDS Integers, Sequences, FiniteSets, TLC

VARIABLES rows, seqno, backend, result, app, context, g, connections, high

vars == <<rows, seqno, backend, result, app, context, g, connections, high>>

(***************************************************************************)
(* Bounds of the model.                                                    *)
(***************************************************************************)
\* The largest id the AUTOINCREMENT counter may reach before the model
\* stops inserting (the engine's own limit is 2^63 - 1).
MaxId == 2
\* The longest list of documents handed to save_all.
MaxBatch == 2

(***************************************************************************)
(* Python values.  A value is a record of one shape: its type t, and its   *)
(* payload in n (an int) or s (a str; for a datetime, the text isoformat() *)
(* gives).  "object" is a value json cannot encode and that is no          *)
(* datetime; "null" is None.                                               *)
(***************************************************************************)
IntV(n) == [t |-> "int", n |-> n, s |-> ""]
StrV(s) == [t |-> "str", n |-> 0, s |-> s]
DatetimeV(iso) == [t |-> "datetime", n |-> 0, s |-> iso]
ObjectV == [t |-> "object", n |-> 0, s |-> ""]
None == [t |-> "null", n |-> 0, s |-> ""]

\* Python's truth value of a value: `if x:`, `x or y`, `not x`.
Truthy(v) ==
  CASE v.t = "int" -> v.n # 0
    [] v.t = "str" -> v.s # ""
    [] v.t = "null" -> FALSE
    [] OTHER -> TRUE

\* dict.get(key, default)
dict_get(d, key, default) == IF key \in DOMAIN d THEN d[key] ELSE default

\* The decimal texts of the integers 0..9, in order.
Digits == <<"0", "1", "2", "3", "4", "5", "6", "7", "8", "9">>

\* Whether a text is the decimal text of an integer.
is_integer_text(s) == \E i \in 1..Len(Digits) : Digits[i] = s

\* The integer a decimal text denotes.
text_to_integer(s) == (CHOOSE i \in 1..Len(Digits) : Digits[i] = s) - 1

\* int(x) raises ValueError on a text that is no integer.
int_raises(v) == v.t = "str" /\ ~is_integer_text(v.s)

\* int(x), on the values the model passes as ids: an int, or the text of
\* one.
py_int(v) == IF v.t = "str" THEN text_to_integer(v.s) ELSE v.n

\* The keys a document may hold, in the order a serialized document lists
\* them.
KeyOrder == <<"_collection", "_id", "name">>
Keys == {KeyOrder[i] : i \in 1..Len(KeyOrder)}

(***************************************************************************)
(* JSON.  A serialized document is the sequence of its <<key, value>>      *)
(* members; a JSON value is an int, a str or null.                         *)
(***************************************************************************)
\* The `default` hook handed to json.dumps: the ISO text of a datetime, and
\* for anything else the function falls off its end and returns None.
inception_serialise(obj) ==
  IF obj.t = "datetime" THEN StrV(obj.s) ELSE None

\* json's encoding of one value: itself when JSON knows the type, else the
\* encoding of what the default hook returns.
json_encode(v) ==
  IF v.t \in {"int", "str", "null"} THEN v ELSE inception_serialise(v)

RECURSIVE json_members(_, _)
json_members(document, i) ==
  IF i > Len(KeyOrder) THEN <<>>
  ELSE LET k == KeyOrder[i]
       IN (IF k \in DOMAIN document
             THEN <<(<<k, json_encode(document[k])>>)>>
             ELSE <<>>) \o json_members(document, i + 1)

\* A serializer that leaves the bookkeeping keys out.
json_dumps_stripped(document) ==
  json_members([k \in DOMAIN document \ {"_id", "_collection"} |->
                  document[k]], 1)

\* json.dumps(document, default=inception_serialise)
json_dumps(document) == json_members(document, 1)

\* json.loads(text)
json_loads(text) ==
  [k \in {text[i][1] : i \in 1..Len(text)} |->
     (CHOOSE m \in {text[i] : i \in 1..Len(text)} : m[1] = k)[2]]

(***************************************************************************)
(* The engine.  db is [rows, seqno]: the table's rows in rowid order, each *)
(* [id, collection, document], and the AUTOINCREMENT counter (the largest  *)
(* rowid the table has held since it was created, sqlite_sequence.seq).    *)
(* An id handed to a statement is a Python value; the id column holds its  *)
(* integer.                                                                *)
(***************************************************************************)
RowIds(rs) == {rs[i].id : i \in 1..Len(rs)}

HasId(rs, k) == k \in RowIds(rs)

RowOf(rs, k) == rs[CHOOSE i \in 1..Len(rs) : rs[i].id = k]

\* 'drop table if exists inception;'
SQL_DROPTABLE(db) == [rows |-> <<>>, seqno |-> 0]

\* The rowid of a key declared without autoincrement: one past the largest
\* rowid in the table now.
rowid_max_plus_one(db) ==
  IF db.rows = <<>> THEN 1 ELSE db.rows[Len(db.rows)].id + 1

\* A rowid taken from the number of rows, which a delete brings down.
rowid_by_count(db) == Len(db.rows) + 1

\* 'create table inception (id integer primary key autoincrement, ...);'
\* The rowid the engine gives a row inserted without one: one past the
\* largest rowid the table has ever held.
SQL_CREATETABLE_autoincrement(db) == db.seqno + 1

\* The id column is an integer primary key: a text bound to it that is not
\* the text of an integer is a datatype mismatch (sqlite3.IntegrityError).
datatype_mismatch(id) == id.t = "str" /\ ~is_integer_text(id.s)

\* The integer the id column holds for a value bound to it.
integer_affinity(id) == IF id.t = "str" THEN text_to_integer(id.s) ELSE id.n

\* An update in place of the insert or replace: a row that is not there is
\* not created.
update_only(db, id, collection, document) ==
  LET k == integer_affinity(id)
  IN [rows |-> [i \in 1..Len(db.rows) |->
                  IF db.rows[i].id = k
                    THEN [id |-> k, collection |-> collection,
                          document |-> document]
                    ELSE db.rows[i]],
      seqno |-> db.seqno]

\* 'insert or replace into inception (id, collection, document) values (?, ?, ?)'
SQL_INSERT_WITH_ID(db, id, collection, document) ==
  LET k == integer_affinity(id)
      row == [id |-> k, collection |-> collection, document |-> document]
  IN [rows |-> SelectSeq(db.rows, LAMBDA r : r.id < k) \o <<row>>
                 \o SelectSeq(db.rows, LAMBDA r : r.id > k),
      seqno |-> IF k > db.seqno THEN k ELSE db.seqno]

\* 'insert or replace into inception (collection, document) values (?, ?)'
SQL_INSERT_WITHOUT_ID(db, collection, document) ==
  SQL_INSERT_WITH_ID(db, IntV(SQL_CREATETABLE_autoincrement(db)),
                     collection, document)

\* 'select * from inception where id = ?'
SQL_SELECT_BY_ID(db, id) == SelectSeq(db.rows, LAMBDA r : r.id = id.n)

\* A select that drops its where clause.
select_collection_unscoped(db, collection) == db.rows

\* 'select * from inception where collection = ?'
SQL_SELECT_COLLECTION(db, collection) ==
  SelectSeq(db.rows, LAMBDA r : r.collection = collection)

\* 'select * from inception'
SQL_SELECT_ALL(db) == db.rows

\* A delete that winds the counter back to the largest rowid left.
delete_rewinds_counter(db, id) ==
  LET left == SelectSeq(db.rows, LAMBDA r : r.id # id.n)
  IN [rows |-> left,
      seqno |-> IF left = <<>> THEN 0 ELSE left[Len(left)].id]

\* 'delete from inception where id = ?'
SQL_DELETE_BY_ID(db, id) ==
  [rows |-> SelectSeq(db.rows, LAMBDA r : r.id # id.n), seqno |-> db.seqno]

(***************************************************************************)
(* Reading: rows to documents, and the query filter.                       *)
(***************************************************************************)
\* unicode(x), on the str values the collection column holds.
unicode(v) == StrV(v.s)

\* A reader that forgets the columns: the parsed blob as it is.
inception_factory_blob_only(row) == json_loads(row.document)

\* A reader that fills in the columns only where the blob has no value of
\* its own.
inception_factory_setdefault(row) ==
  LET rv == json_loads(row.document)
  IN [k \in DOMAIN rv \cup {"_id", "_collection"} |->
        IF k \in DOMAIN rv THEN rv[k]
        ELSE IF k = "_id" THEN IntV(row.id)
        ELSE StrV(row.collection.s)]

inception_factory(row) ==
  LET rv == json_loads(row.document)
  IN [k \in DOMAIN rv \cup {"_id", "_collection"} |->
        IF k = "_id" THEN IntV(row.id)
        ELSE IF k = "_collection" THEN unicode(row.collection)
        ELSE rv[k]]

\* A query maps fields to matchers.  A matcher is a plain value, or a
\* callable: a predicate, given by the set of values it is true of.
Equals(v) == [callable |-> FALSE, value |-> v, accepts |-> {}]
Predicate(S) == [callable |-> TRUE, value |-> None, accepts |-> S]
NoQuery == [k \in {} |-> Equals(None)]

\* flter(value), for a callable matcher
call(flter, value) == value \in flter.accepts

filter_result(rslt, filters) ==
  \A field \in DOMAIN filters :
    LET flter == filters[field]
    IN IF flter.callable
         THEN call(flter, dict_get(rslt, field, StrV("")))
         ELSE dict_get(rslt, field, StrV("")) = flter.value

filter_results(results, filters) ==
  SelectSeq(results, LAMBDA r : filter_result(r, filters))

\* A call's outcome: what it returned (rv, a list; for get_by_id the list
\* of the one document, or the empty list for None) or the exception it
\* raised (exc, "" when it returned).
Returned(rv) == [rv |-> rv, exc |-> ""]
Raised(exc) == [rv |-> <<>>, exc |-> exc]

\* [inception_factory(None, row) for row in selected]
decode(selected) == [i \in 1..Len(selected) |-> inception_factory(selected[i])]

\* cursor.fetchall() / fetchone(): sqlite3 hands every row to the
\* connection's row_factory (inception_factory, set in _dbconnect);
\* MySQLdb returns the rows as tuples.
fetch(be, selected) ==
  IF be = "sqlite" THEN decode(selected) ELSE selected

\* Database.get
Database_get(be, db, collection, query) ==
  LET selected == IF Truthy(collection)
                    THEN SQL_SELECT_COLLECTION(db, collection)
                    ELSE SQL_SELECT_ALL(db)
      results == fetch(be, selected)
  IN IF DOMAIN query # {}
       THEN IF be = "mysql" /\ Len(results) > 0
              THEN Raised("AttributeError")   \* a tuple has no .get
              ELSE Returned(filter_results(results, query))
       ELSE Returned(results)

\* MySQLDatabase.get
MySQLDatabase_get(db, collection, query) ==
  LET sup == Database_get("mysql", db, collection, query)
  IN IF sup.exc # "" THEN sup ELSE Returned(decode(sup.rv))

get(be, db, collection, query) ==
  IF be = "mysql" THEN MySQLDatabase_get(db, collection, query)
  ELSE Database_get(be, db, collection, query)

\* Database.get_by_id
Database_get_by_id(be, db, id) == Returned(fetch(be, SQL_SELECT_BY_ID(db, id)))

\* MySQLDatabase.get_by_id iterates over what Database.get_by_id returned,
\* one row tuple or None, and hands each element to inception_factory: the
\* first element of a row is its integer id, and None is not iterable.
MySQLDatabase_get_by_id(db, id) == Raised("TypeError")

get_by_id(be, db, id) ==
  IF be = "mysql" THEN MySQLDatabase_get_by_id(db, id)
  ELSE Database_get_by_id(be, db, id)

(***************************************************************************)
(* Writing.  A writer's outcome is the table after its commit, the         *)
(* exception it raised ("" when none) and the caller's document as the     *)
(* call left it.                                                           *)
(***************************************************************************)
\* A resolution that lets the argument win over the document's own
\* collection.
resolve_collection_argument_first(document, collection) ==
  LET own == dict_get(document, "_collection", None)
      c == IF Truthy(collection) THEN collection ELSE own
  IN IF ~Truthy(c) THEN StrV("") ELSE c

\* The collection save and save_all resolve for one document.
resolve_collection(document, collection) ==
  LET own == dict_get(document, "_collection", None)
      c == IF Truthy(own) THEN own ELSE collection
  IN IF ~Truthy(c) THEN StrV("") ELSE c

\* A save that never looks at the document's _id: every save inserts.
save_always_inserts(db, document, collection) ==
  [db |-> SQL_INSERT_WITHOUT_ID(db, resolve_collection(document, collection),
                                json_dumps(document)),
   exc |-> "",
   document |-> document]

\* Database.save
save(db, document, collection) ==
  LET coll == resolve_collection(document, collection)
      docid == dict_get(document, "_id", None)
      text == json_dumps(document)
  IN IF Truthy(docid) /\ int_raises(docid)
       THEN [db |-> db, exc |-> "ValueError", document |-> document]
       ELSE [db |-> IF Truthy(docid)
                      THEN SQL_INSERT_WITH_ID(db, IntV(py_int(docid)), coll,
                                              text)
                      ELSE SQL_INSERT_WITHOUT_ID(db, coll, text),
             exc |-> "",
             document |-> document]

\* A loop that stops after its first document.
save_all_loop_first_only(cn, documents, collection, i) ==
  IF i > 1 \/ i > Len(documents) THEN [db |-> cn, exc |-> ""]
  ELSE [db |-> save(cn, documents[i], collection).db, exc |-> ""]

\* The loop of Database.save_all from its i-th document on.  cn is the
\* table as the call's connection sees it, with the statements it has run
\* and not committed; `collection` is the loop's own variable.  The
\* outcome is that table and the exception a statement raised ("" when the
\* loop ran to its end).
RECURSIVE save_all_loop(_, _, _, _)
save_all_loop(cn, documents, collection, i) ==
  IF i > Len(documents) THEN [db |-> cn, exc |-> ""]
  ELSE LET document == documents[i]
           coll == resolve_collection(document, collection)
           docid == dict_get(document, "_id", None)
           text == json_dumps(document)
       IN IF Truthy(docid) /\ datatype_mismatch(docid)
            THEN [db |-> cn, exc |-> "IntegrityError"]
            ELSE save_all_loop(IF Truthy(docid)
                                 THEN SQL_INSERT_WITH_ID(cn, docid, coll, text)
                                 ELSE SQL_INSERT_WITHOUT_ID(cn, coll, text),
                               documents, coll, i + 1)

\* A save_all that commits after every statement: what ran before a
\* failure stays.
save_all_commit_each(db, documents, collection) ==
  LET run == save_all_loop(db, documents, collection, 1)
  IN [db |-> run.db, exc |-> run.exc, documents |-> documents]

\* Database.save_all: the loop runs on a connection of the call's own and
\* db.commit() after it publishes what the loop did.  When a statement
\* raises, the call ends before the commit and the connection is dropped
\* with its transaction open, which rolls it back.
save_all(db, documents, collection) ==
  LET run == save_all_loop(db, documents, collection, 1)
  IN [db |-> IF run.exc = "" THEN run.db ELSE db,
      exc |-> run.exc,
      documents |-> documents]

\* Database.delete_by_id; `statements` lists the statements the call ran.
delete_by_id(db, id) ==
  [db |-> SQL_DELETE_BY_ID(db, id), exc |-> "",
   statements |-> <<"SQL_DELETE_BY_ID">>]

\* A delete that never reaches delete_by_id.
delete_nothing(db, document) ==
  [db |-> db, exc |-> "", statements |-> <<>>]

\* Database.delete
delete(db, document) ==
  IF "_id" \in DOMAIN document
    THEN delete_by_id(db, document["_id"])
    ELSE [db |-> db, exc |-> "", statements |-> <<>>]

\* Database._dbinit
dbinit(db) == [db |-> SQL_DROPTABLE(db), exc |-> ""]

(***************************************************************************)
(* The inputs the actions draw from.                                       *)
(***************************************************************************)
Absent == [t |-> "absent", n |-> 0, s |-> ""]

\* dict(_id=id, _collection=collection, name=name), without the keys given
\* as Absent.
Document(id, collection, name) ==
  LET given == [k \in Keys |-> IF k = "_id" THEN id
                               ELSE IF k = "_collection" THEN collection
                               ELSE name]
  IN [k \in {x \in Keys : given[x] # Absent} |-> given[k]]

ADatetime == DatetimeV("2014-01-01T00:00:00")

\* The documents callers save: new ones, with and without a collection of
\* their own (one of them empty), fetched ones (they carry _id) and one
\* whose _id is 0; one holds a datetime and one a value JSON has no
\* encoding for.
Documents ==
  { Document(Absent, Absent, StrV("One")),
    Document(Absent, StrV("a"), StrV("Two")),
    Document(Absent, StrV(""), ADatetime),
    Document(IntV(1), Absent, StrV("Two")),
    Document(IntV(2), StrV("a"), StrV("One")),
    Document(IntV(0), Absent, ObjectV) }

\* The `collection` argument of save and save_all (None when not given).
CollectionArgs == {None, StrV("b")}

\* The `collection` argument of get.
GetCollections == {None, StrV("a"), StrV("b")}

\* The `query` argument of get: none, a plain value, a predicate.
Queries ==
  { NoQuery,
    [k \in {"name"} |-> Equals(StrV("One"))],
    [k \in {"name"} |-> Predicate({StrV(""), StrV("Two")})] }

\* The documents of a save_all: new ones with and without a collection of
\* their own, and a fetched one.
BatchDocuments ==
  { Document(Absent, Absent, StrV("One")),
    Document(Absent, StrV("a"), StrV("Two")),
    Document(IntV(1), Absent, StrV("Two")) }

Batches == UNION {[1..n -> BatchDocuments] : n \in 0..MaxBatch}

\* Lists whose second document has an _id that is no integer: the insert
\* of the first has run when the insert of the second fails.
FailingBatches ==
  { <<D, Document(StrV("abc"), Absent, StrV("One"))>> :
      D \in { Document(Absent, Absent, StrV("One")),
               Document(IntV(1), StrV("a"), StrV("Two")) } }

IdArgs == {IntV(k) : k \in 1..MaxId}

(***************************************************************************)
(* The host.                                                               *)
(***************************************************************************)
\* The names the module binds at its top level.  `from flask import g` is
\* a statement of __init__, so it binds g in that call's locals only.
ModuleGlobals ==
  { "datetime", "sqlite3", "MySQLdb", "json", "inception_factory",
    "filter_results", "inception_serialise", "_contains", "Database",
    "MySQLDatabase", "_test" }

NoAttributes == [k \in {} |-> 0]
NoConnections == [k \in {} |-> ""]

\* Database._dbget.  With a host app the method reads the global name g;
\* it then looks for the attribute inception__db and stores the connection
\* it opens as inception_db.  Without one the call gets a connection of
\* its own.  The outcome is the exception raised ("" when none) and the
\* slot and the context's connections after the call.
dbget(a, slot, conns) ==
  IF a
    THEN IF "g" \notin ModuleGlobals
           THEN [exc |-> "NameError", g |-> slot, connections |-> conns]
           ELSE IF "inception__db" \notin DOMAIN slot
                  THEN LET new == Cardinality(DOMAIN conns) + 1
                       IN [exc |-> "",
                           g |-> [k \in DOMAIN slot \cup {"inception_db"} |->
                                    IF k = "inception_db" THEN new
                                    ELSE slot[k]],
                           connections |->
                             [c \in DOMAIN conns \cup {new} |->
                                IF c = new THEN "open" ELSE conns[c]]]
                  ELSE [exc |-> "", g |-> slot, connections |-> conns]
    ELSE [exc |-> "", g |-> slot, connections |-> conns]

\* The parameters of _dbclose, and the arguments the host calls a teardown
\* function with: the bound method's self and the context's exception.
dbclose_parameters == <<"self">>
teardown_arguments == <<"self", "exception">>

\* Database._dbclose, called with `arguments`.
dbclose(a, slot, conns, arguments) ==
  IF Len(arguments) # Len(dbclose_parameters)
    THEN [exc |-> "TypeError", connections |-> conns]
    ELSE IF a
      THEN IF "g" \notin ModuleGlobals
             THEN [exc |-> "NameError", connections |-> conns]
             ELSE IF "inception__db" \in DOMAIN slot
                    THEN [exc |-> "",
                          connections |->
                            [c \in DOMAIN conns |->
                               IF c = slot["inception_db"] THEN "closed"
                               ELSE conns[c]]]
                    ELSE [exc |-> "", connections |-> conns]
      ELSE [exc |-> "", connections |-> conns]

\* The largest id a row has had: h so far, and the rows of rs (in rowid
\* order).
highest(h, rs) ==
  IF rs # <<>> /\ rs[Len(rs)].id > h THEN rs[Len(rs)].id ELSE h

(***************************************************************************)
(* The state machine.                                                      *)
(***************************************************************************)
db == [rows |-> rows, seqno |-> seqno]

\* What self._dbget() gives the call that is about to run.
cn == dbget(app, g, connections)

\* result is the last call's name, the id it was given (get_by_id and
\* delete_by_id; 0 for the others) and the exception it raised ("" when it
\* returned).  A writer returns None; what a reader returns is the value
\* of its operator on the table, which it leaves alone.  A call that
\* raises before it has run a statement changes nothing else.
DbInit ==
  LET out == dbinit(db)
  IN IF cn.exc # ""
       THEN /\ result' = [op |-> "_dbinit", id |-> 0, exc |-> cn.exc]
            /\ UNCHANGED <<rows, seqno, high, backend, app, context, g,
                           connections>>
       ELSE /\ rows' = out.db.rows
            /\ seqno' = out.db.seqno
            /\ high' = 0
            /\ result' = [op |-> "_dbinit", id |-> 0, exc |-> out.exc]
            /\ g' = cn.g
            /\ connections' = cn.connections
            /\ UNCHANGED <<backend, app, context>>

\* save builds its statement, int(docid) included, before it calls _dbget.
Save ==
  \E document \in Documents, collection \in CollectionArgs :
    LET out == save(db, document, collection)
    IN IF out.exc = "" /\ cn.exc # ""
         THEN /\ result' = [op |-> "save", id |-> 0, exc |-> cn.exc]
              /\ UNCHANGED <<rows, seqno, high, backend, app, context, g,
                             connections>>
         ELSE /\ out.db.seqno <= MaxId
              /\ rows' = out.db.rows
              /\ seqno' = out.db.seqno
              /\ high' = highest(high, out.db.rows)
              /\ result' = [op |-> "save", id |-> 0, exc |-> out.exc]
              /\ g' = cn.g
              /\ connections' = cn.connections
              /\ UNCHANGED <<backend, app, context>>

SaveAll ==
  \E documents \in Batches \cup FailingBatches, collection \in CollectionArgs :
    LET out == save_all(db, documents, collection)
    IN IF cn.exc # ""
         THEN /\ result' = [op |-> "save_all", id |-> 0, exc |-> cn.exc]
              /\ UNCHANGED <<rows, seqno, high, backend, app, context, g,
                             connections>>
         ELSE /\ out.db.seqno <= MaxId
              /\ rows' = out.db.rows
              /\ seqno' = out.db.seqno
              /\ high' = highest(high, out.db.rows)
              /\ result' = [op |-> "save_all", id |-> 0, exc |-> out.exc]
              /\ g' = cn.g
              /\ connections' = cn.connections
              /\ UNCHANGED <<backend, app, context>>

Get ==
  \E collection \in GetCollections, query \in Queries :
    LET out == get(backend, db, collection, query)
    IN /\ result' = [op |-> "get", id |-> 0,
                     exc |-> IF cn.exc # "" THEN cn.exc ELSE out.exc]
       /\ g' = cn.g
       /\ connections' = cn.connections
       /\ UNCHANGED <<rows, seqno, high, backend, app, context>>

GetById ==
  \E id \in IdArgs :
    LET out == get_by_id(backend, db, id)
    IN /\ result' = [op |-> "get_by_id", id |-> id.n,
                     exc |-> IF cn.exc # "" THEN cn.exc ELSE out.exc]
       /\ g' = cn.g
       /\ connections' = cn.connections
       /\ UNCHANGED <<rows, seqno, high, backend, app, context>>

DeleteById ==
  \E id \in IdArgs :
    LET out == delete_by_id(db, id)
    IN IF cn.exc # ""
         THEN /\ result' = [op |-> "delete_by_id", id |-> id.n,
                            exc |-> cn.exc]
              /\ UNCHANGED <<rows, seqno, high, backend, app, context, g,
                             connections>>
         ELSE /\ rows' = out.db.rows
              /\ seqno' = out.db.seqno
              /\ result' = [op |-> "delete_by_id", id |-> id.n,
                            exc |-> out.exc]
              /\ g' = cn.g
              /\ connections' = cn.connections
              /\ UNCHANGED <<high, backend, app, context>>

\* delete calls delete_by_id, and with it _dbget, only for a document that
\* has an _id.
Delete ==
  \E document \in BatchDocuments :
    LET out == delete(db, document)
    IN IF "_id" \in DOMAIN document /\ cn.exc # ""
         THEN /\ result' = [op |-> "delete", id |-> 0, exc |-> cn.exc]
              /\ UNCHANGED <<rows, seqno, high, backend, app, context, g,
                             connections>>
         ELSE /\ rows' = out.db.rows
              /\ seqno' = out.db.seqno
              /\ result' = [op |-> "delete", id |-> 0, exc |-> out.exc]
              /\ g' = IF "_id" \in DOMAIN document THEN cn.g ELSE g
              /\ connections' = IF "_id" \in DOMAIN document
                                  THEN cn.connections ELSE connections
              /\ UNCHANGED <<high, backend, app, context>>

NoCall == [op |-> "__init__", id |-> 0, exc |-> ""]

\* Database(path, app=a), between two application contexts, over the
\* database the program already uses.
Construct ==
  \E a \in BOOLEAN :
    /\ ~context
    /\ app' = a
    /\ result' = NoCall
    /\ g' = NoAttributes
    /\ connections' = NoConnections
    /\ UNCHANGED <<rows, seqno, high, backend, context>>

\* The host begins an application context: its g has no attribute yet.
PushContext ==
  /\ app /\ ~context
  /\ context' = TRUE
  /\ g' = NoAttributes
  /\ connections' = NoConnections
  /\ result' = [op |-> "app_context", id |-> 0, exc |-> ""]
  /\ UNCHANGED <<rows, seqno, high, backend, app>>

\* The application context ends: the host calls the teardown function
\* __init__ registered, self._dbclose, and discards the context's g.
Teardown ==
  LET out == dbclose(app, g, connections, teardown_arguments)
  IN /\ app /\ context
     /\ context' = FALSE
     /\ g' = NoAttributes
     /\ connections' = out.connections
     /\ result' = [op |-> "teardown", id |-> 0, exc |-> out.exc]
     /\ UNCHANGED <<rows, seqno, high, backend, app>>

\* A Database over a database that _dbinit has created.
Init ==
  /\ rows = <<>>
  /\ seqno = 0
  /\ high = 0
  /\ backend = "sqlite"
  /\ result = NoCall
  /\ app = FALSE
  /\ context = FALSE
  /\ g = NoAttributes
  /\ connections = NoConnections

\* A MySQLDatabase over a database that _dbinit has created.
InitMySQL ==
  /\ rows = <<>>
  /\ seqno = 0
  /\ high = 0
  /\ backend = "mysql"
  /\ result = NoCall
  /\ app = FALSE
  /\ context = FALSE
  /\ g = NoAttributes
  /\ connections = NoConnections

Next ==
  \/ DbInit
  \/ Save
  \/ SaveAll
  \/ Get
  \/ GetById
  \/ DeleteById
  \/ Delete

NextHosted ==
  \/ DbInit
  \/ Save
  \/ SaveAll
  \/ Get
  \/ GetById
  \/ DeleteById
  \/ Delete
  \/ Construct
  \/ PushContext
  \/ Teardown

Spec == Init /\ [][Next]_vars

SpecMySQL == InitMySQL /\ [][Next]_vars

SpecHosted == Init /\ [][NextHosted]_vars

(***************************************************************************)
(* What the properties range over.  A property about a method applies the  *)
(* method's operator to every reachable table.                             *)
(***************************************************************************)
\* Collection names, the empty string among them.
Collections == {StrV(""), StrV("a"), StrV("b")}

\* Documents that carry no _id: with no collection of their own, an empty
\* one or "a", and with no name, a str, a datetime or an object for name.
NewDocuments ==
  { Document(Absent, c, n) :
      c \in {Absent, StrV(""), StrV("a")},
      n \in {Absent, StrV("One"), ADatetime, ObjectV} }

\* Every value of the document is one JSON has a type for (the spec's
\* Document: a mapping to JSON-representable values).
JSONRepresentable(document) ==
  \A k \in DOMAIN document : document[k].t \in {"int", "str", "null"}

\* What a stored document reads back as, before the columns are injected:
\* itself when it is JSON-representable, else its JSON encoding.
ReadBack(document) ==
  IF JSONRepresentable(document) THEN document
  ELSE json_loads(json_dumps(document))

\* document, with _id and _collection set to the given values.
Injected(document, id, collection) ==
  [k \in DOMAIN document \cup {"_id", "_collection"} |->
     IF k = "_id" THEN id
     ELSE IF k = "_collection" THEN collection
     ELSE document[k]]

Fresh == rows = <<>> /\ seqno = 0

\* save(D, collection=C) on the current table, then get(C): one document,
\* D as it reads back plus a positive _id and _collection = C.
RoundTrips(D, C) ==
  LET got == get(backend, save(db, D, C).db, C, NoQuery)
  IN /\ got.exc = ""
     /\ Len(got.rv) = 1
     /\ "_id" \in DOMAIN got.rv[1]
     /\ got.rv[1]["_id"].t = "int"
     /\ got.rv[1]["_id"].n > 0
     /\ got.rv[1] = Injected(ReadBack(D), got.rv[1]["_id"], C)

\* C1 as claimed: on a freshly initialised store, for every document D with
\* no _id key and every collection C, save(D, collection=C) then get(C)
\* returns exactly one document, D plus a positive _id and _collection = C.
C1_RoundTrip_AsClaimed ==
  Fresh =>
    \A D \in NewDocuments, C \in Collections :
      JSONRepresentable(D) => RoundTrips(D, C)

\* C1, amended: the same for every document D with no _id key whose own
\* _collection, if it has one, is empty or equal to C (a document's own
\* non-empty _collection decides where it is stored).  A value JSON has no
\* type for reads back as its encoding.
C1_RoundTrip ==
  Fresh =>
    \A D \in NewDocuments, C \in Collections :
      ("_collection" \in DOMAIN D => D["_collection"] \in {StrV(""), C})
        => RoundTrips(D, C)

\* The store right after save(D, collection="b") on a fresh store, D having
\* no _id and no _collection: get("b") returns the one document.
C1_Witness ==
  /\ result.op = "save" /\ result.exc = ""
  /\ seqno = 1
  /\ Len(rows) = 1
  /\ rows[1].collection = StrV("b")
  /\ DOMAIN json_loads(rows[1].document) = {"name"}
  /\ Len(get(backend, db, StrV("b"), NoQuery).rv) = 1

\* A document without its bookkeeping keys.
Fields(document) ==
  [k \in DOMAIN document \ {"_id", "_collection"} |-> document[k]]

\* Documents that carry _id = k, as a fetched document does.
UpsertDocuments(k) ==
  { Document(IntV(k), c, n) :
      c \in {Absent, StrV("a")},
      n \in {StrV("One"), StrV("Two"), ADatetime} }

\* C2: for every id k that has a row, two saves of documents that carry
\* _id = k and different field values leave exactly one row with id k and
\* as many rows as before, and get_by_id(k) returns the field values of the
\* last save (a value JSON has no type for, as its encoding).
C2_UpsertIdempotence ==
  \A k \in RowIds(rows) :
    \A D1 \in UpsertDocuments(k), D2 \in UpsertDocuments(k),
       C \in CollectionArgs :
      Fields(D1) # Fields(D2) =>
        LET first == save(db, D1, C)
            second == save(first.db, D2, C)
            after == second.db.rows
            got == get_by_id(backend, second.db, IntV(k))
        IN /\ first.exc = "" /\ second.exc = ""
           /\ Cardinality({i \in 1..Len(after) : after[i].id = k}) = 1
           /\ Len(after) = Len(rows)
           /\ got.exc = ""
           /\ Len(got.rv) = 1
           /\ got.rv[1]["_id"] = IntV(k)
           /\ Fields(got.rv[1]) = Fields(ReadBack(D2))

\* The store right after save of a fetched document (it carries _id = 1,
\* the id of the first row saved) with a new name: still one row with id 1,
\* holding the new name, beside the second row.
C2_Witness ==
  /\ result.op = "save" /\ result.exc = ""
  /\ RowIds(rows) = {1, 2}
  /\ json_loads(rows[1].document) = Document(IntV(1), Absent, StrV("Two"))
  /\ "_id" \notin DOMAIN json_loads(rows[2].document)

\* C3: in every reachable state, save(D) for a document D with no _id key
\* adds exactly one row, under an id no row had; every row there before is
\* still there, unchanged; D is left as it was, and saving it again adds a
\* second row under another new id.
C3_InsertWithoutId ==
  \A D \in NewDocuments, C \in CollectionArgs :
    LET first == save(db, D, C)
        second == save(first.db, first.document, C)
        one == first.db.rows
        two == second.db.rows
    IN /\ first.exc = "" /\ second.exc = ""
       /\ first.document = D
       /\ Len(one) = Len(rows) + 1
       /\ Cardinality(RowIds(one) \ RowIds(rows)) = 1
       /\ \A i \in 1..Len(rows) : \E j \in 1..Len(one) : one[j] = rows[i]
       /\ Len(two) = Len(one) + 1
       /\ Cardinality(RowIds(two) \ RowIds(one)) = 1
       /\ \A i \in 1..Len(one) : \E j \in 1..Len(two) : two[j] = one[i]

\* The store right after the second save of one unchanged document with no
\* _id: two rows, alike but for their ids.
C3_Witness ==
  /\ result.op = "save" /\ result.exc = ""
  /\ Len(rows) = 2
  /\ rows[1].id # rows[2].id
  /\ rows[1].document = rows[2].document
  /\ rows[1].collection = rows[2].collection
  /\ "_id" \notin DOMAIN json_loads(rows[1].document)

\* get(C) returns only documents whose _collection is C.
Scoped(C) ==
  LET got == get(backend, db, C, NoQuery)
  IN /\ got.exc = ""
     /\ \A i \in 1..Len(got.rv) : got.rv[i]["_collection"] = C

\* C4 as claimed: for all collection names C1 # C2, the empty string
\* included, get(C1) never returns a document whose _collection is C2.
C4_CollectionScoping_AsClaimed == \A C \in Collections : Scoped(C)

\* C4, amended: the same for every non-empty C1; get("") is get(): it
\* returns the documents of every collection.
C4_CollectionScoping ==
  /\ \A C \in Collections \ {StrV("")} : Scoped(C)
  /\ Len(get(backend, db, StrV(""), NoQuery).rv) = Len(rows)
  /\ get(backend, db, StrV(""), NoQuery) = get(backend, db, None, NoQuery)

\* The store holds documents of collections "a" and "b" when get is called.
C4_Witness ==
  /\ result.op = "get" /\ result.exc = ""
  /\ \E i, j \in 1..Len(rows) :
       rows[i].collection = StrV("a") /\ rows[j].collection = StrV("b")

\* The queries the filter is checked on: one (field, matcher) pair, the
\* matcher a plain value or a predicate, and two pairs.
FilterQueries ==
  { [k \in {f} |-> m] :
      f \in {"name", "_collection"},
      m \in {Equals(StrV("One")), Equals(StrV("")),
             Predicate({StrV(""), StrV("Two")})} }
  \cup { [k \in {"name", "_collection"} |->
            IF k = "name" THEN m ELSE Equals(StrV("a"))] :
           m \in {Equals(StrV("One")), Predicate({StrV(""), StrV("Two")})} }

\* Document d passes every (field, matcher) pair of query q.
Passes(d, q) ==
  \A f \in DOMAIN q :
    LET v == IF f \in DOMAIN d THEN d[f] ELSE StrV("")
    IN IF q[f].callable THEN v \in q[f].accepts ELSE v = q[f].value

\* C5: for every store state, collection C, field f and matcher m,
\* get(C, {f: m}) returns exactly the documents d of get(C), in the same
\* order, for which d.get(f, '') == m (m a plain value) or m(d.get(f, ''))
\* is true (m a predicate); with several pairs, the documents that pass
\* every pair.  Stated of the repository the specification builds: under
\* Spec the SQLite one, under SpecMySQL the MySQL one.
C5_QueryFilter ==
  \A C \in GetCollections, q \in FilterQueries :
    LET all == get(backend, db, C, NoQuery)
        got == get(backend, db, C, q)
    IN /\ all.exc = ""
       /\ got.exc = ""
       /\ got.rv = SelectSeq(all.rv, LAMBDA d : Passes(d, q))

\* No get and no get_by_id finds id k in the table.
AbsentEverywhere(k) ==
  /\ get_by_id(backend, db, IntV(k)) = Returned(<<>>)
  /\ \A C \in GetCollections, q \in Queries :
       LET got == get(backend, db, C, q)
       IN got.exc = "" /\ \A i \in 1..Len(got.rv) : got.rv[i]["_id"] # IntV(k)

\* delete_by_id(k) raises nothing and leaves the table as it is.
DeleteIsNoOp(k) ==
  LET out == delete_by_id(db, IntV(k))
  IN out.db = db /\ out.exc = ""

\* Row k holds a document that was saved carrying _id = k, by the call that
\* just ended.
SavedCarrying(k) ==
  /\ result.op \in {"save", "save_all"}
  /\ HasId(rows, k)
  /\ dict_get(json_loads(RowOf(rows, k).document), "_id", None) = IntV(k)

\* C6 as claimed, at the call that follows delete_by_id(k): for every id
\* k, once delete_by_id(k) has returned, id k is absent until a save
\* carries _id = k.
C6_DeleteFinality_AsClaimed ==
  [][\A k \in 1..MaxId :
       (result.op = "delete_by_id" /\ result.id = k /\ HasId(rows', k))
         => SavedCarrying(k)']_vars

\* C6, amended: for every id k a row has held since the table was created
\* (k is not above the autoincrement counter), once delete_by_id(k) has
\* returned, get_by_id(k) returns None and no get returns a document with
\* _id = k, until a later save or save_all carries _id = k or _dbinit
\* creates the table anew; a second delete_by_id(k) raises nothing and
\* leaves the table unchanged.
C6_DeleteFinality ==
  [][\A k \in 1..MaxId :
       /\ (result'.op = "delete_by_id" /\ result'.id = k)
            => (result.exc = "" /\ AbsentEverywhere(k) /\ DeleteIsNoOp(k))'
       /\ (k <= seqno /\ ~HasId(rows, k) /\ HasId(rows', k))
            => SavedCarrying(k)']_vars

\* The store right after delete_by_id(1) removed row 1, the second row
\* still there.
C6_Witness ==
  /\ result.op = "delete_by_id" /\ result.id = 1 /\ result.exc = ""
  /\ RowIds(rows) = {2}

\* Lists of documents that carry no _id.
NewBatchDocuments ==
  { Document(Absent, Absent, StrV("One")),
    Document(Absent, StrV(""), ADatetime),
    Document(Absent, StrV("a"), Absent) }

NewBatches == UNION {[1..n -> NewBatchDocuments] : n \in 0..MaxBatch}

\* save_all(Ds, collection=C) on the current table, then get(C): the
\* documents of Ds are rows under ids that are new and differ, one per
\* document, and get(C) returns each with its id.
BatchIsSaved(Ds, C) ==
  LET n == Len(Ds)
      out == save_all(db, Ds, C)
      after == out.db.rows
      got == get(backend, out.db, C, NoQuery)
  IN /\ out.exc = "" /\ got.exc = ""
     /\ Len(after) = Len(rows) + n
     /\ Cardinality(RowIds(after) \ RowIds(rows)) = n
     /\ \A j \in 1..n :
          LET id == after[Len(rows) + j].id
          IN /\ id \notin RowIds(rows)
             /\ \E i \in 1..Len(got.rv) :
                  /\ got.rv[i]["_id"] = IntV(id)
                  /\ Fields(got.rv[i]) = Fields(ReadBack(Ds[j]))

\* C7 as claimed: for every list D1..Dn of documents that carry no _id,
\* save_all([D1..Dn], collection=C) followed by get(C) returns all n
\* documents, each with an _id; the n ids differ from each other and from
\* the ids of the rows already in the table.
C7_BatchSave_AsClaimed ==
  \A Ds \in NewBatches, C \in Collections : BatchIsSaved(Ds, C)

\* C7, amended: the same for lists of documents that carry no _id and
\* whose own _collection, if they have one, is empty or equal to C.
C7_BatchSave ==
  \A Ds \in NewBatches, C \in Collections :
    (\A j \in 1..Len(Ds) :
       "_collection" \in DOMAIN Ds[j] => Ds[j]["_collection"] \in {StrV(""), C})
      => BatchIsSaved(Ds, C)

\* The store right after a save_all, holding two rows whose documents have
\* no _id, both of collection "b" and both returned by get("b").
C7_Witness ==
  /\ result.op = "save_all" /\ result.exc = ""
  /\ Len(rows) = 2
  /\ rows[1].id < rows[2].id
  /\ rows[1].collection = StrV("b") /\ rows[2].collection = StrV("b")
  /\ "_id" \notin DOMAIN json_loads(rows[1].document)
  /\ "_id" \notin DOMAIN json_loads(rows[2].document)
  /\ Len(get(backend, db, StrV("b"), NoQuery).rv) = 2

\* The documents collection resolution is checked on: with no collection
\* of their own, an empty one or "a", new or fetched.
ResolveDocuments ==
  { Document(i, c, StrV("One")) :
      i \in {Absent, IntV(1)}, c \in {Absent, StrV(""), StrV("a")} }

\* The row save(D, ...) wrote into table `after` (it held `before`).
WrittenRow(before, after, D) ==
  IF Truthy(dict_get(D, "_id", None))
    THEN RowOf(after, D["_id"].n)
    ELSE RowOf(after, CHOOSE k \in RowIds(after) : k \notin RowIds(before))

\* C8 as claimed: the row save(document, collection) writes has its
\* collection column equal to document['_collection'] whenever the key is
\* present, whatever its value, else to the `collection` argument if one is
\* given, else to the empty string.
C8_CollectionResolution_AsClaimed ==
  \A D \in ResolveDocuments, C \in Collections \cup {None} :
    WrittenRow(rows, save(db, D, C).db.rows, D).collection =
      IF "_collection" \in DOMAIN D THEN D["_collection"]
      ELSE IF C # None THEN C
      ELSE StrV("")

\* C8, amended: ... equal to document['_collection'] whenever the key is
\* present with a non-empty value, else to the `collection` argument if a
\* non-empty one is given, else to the empty string.
C8_CollectionResolution ==
  \A D \in ResolveDocuments, C \in Collections \cup {None} :
    WrittenRow(rows, save(db, D, C).db.rows, D).collection =
      IF "_collection" \in DOMAIN D /\ D["_collection"] # StrV("")
        THEN D["_collection"]
      ELSE IF C # None /\ C # StrV("") THEN C
      ELSE StrV("")

\* The store right after save({'_collection': ''}, collection='b'): the
\* row is in collection "b".
C8_Witness ==
  /\ result.op = "save" /\ result.exc = ""
  /\ \E i \in 1..Len(rows) :
       /\ rows[i].collection = StrV("b")
       /\ dict_get(json_loads(rows[i].document), "_collection", None)
            = StrV("")

\* The keys of the serialized document of a row.
BlobKeys(row) == DOMAIN json_loads(row.document)

UnencodableDocuments ==
  { Document(i, c, ObjectV) :
      i \in {Absent, IntV(1)}, c \in {Absent, StrV("a")} }

\* C10: save, and save_all, of a document that contains a value with no
\* defined encoding raises a serialization error, and writes or changes no
\* row.
C10_SerializationError ==
  \A D \in UnencodableDocuments, C \in CollectionArgs :
    /\ save(db, D, C).exc # ""
    /\ save(db, D, C).db = db
    /\ save_all(db, <<D>>, C).exc # ""
    /\ save_all(db, <<D>>, C).db = db

\* C11: for every id k with no row in the table get_by_id(k) returns
\* absent and raises nothing, on the SQLite repository and on the MySQL
\* repository; when the row exists it returns that one decoded document.
C11_NotFound ==
  \A k \in 1..MaxId :
    LET out == get_by_id(backend, db, IntV(k))
    IN /\ out.exc = ""
       /\ ~HasId(rows, k) => out.rv = <<>>
       /\ HasId(rows, k) => out.rv = <<inception_factory(RowOf(rows, k))>>

\* The documents handed to delete: without _id, and with an _id that is 0,
\* or the id of a row or of none.
DeleteDocuments ==
  { Document(i, c, StrV("One")) :
      i \in {Absent} \cup {IntV(k) : k \in 0..MaxId},
      c \in {Absent, StrV("a")} }

\* C12: delete(document) for a document that has no _id key does nothing:
\* the table is unchanged, no statement is run and nothing is raised; when
\* the key is present it removes exactly the row whose id is
\* document['_id'].
C12_DeleteDocument ==
  \A D \in DeleteDocuments :
    LET out == delete(db, D)
    IN /\ out.exc = ""
       /\ out.db.seqno = seqno
       /\ IF "_id" \notin DOMAIN D
            THEN out.db = db /\ out.statements = <<>>
            ELSE out.db.rows = SelectSeq(rows, LAMBDA r : r.id # D["_id"].n)

\* The store right after a delete that left row 1 in a table of two rows:
\* the Delete action hands over documents without _id or with _id 1, so
\* this one had no _id.
C12_Witness ==
  /\ result.op = "delete" /\ result.exc = ""
  /\ RowIds(rows) = {1, 2}

\* C13: within one save_all(documents, collection) a document that has no
\* _collection of its own is stored under the call's `collection` argument,
\* or under the empty string when none is given: the _collection an earlier
\* document of the list carries is never applied to it.
C13_CollectionFallback ==
  \A Ds \in NewBatches, C \in CollectionArgs :
    LET after == save_all(db, Ds, C).db.rows
    IN \A j \in 1..Len(Ds) :
         "_collection" \notin DOMAIN Ds[j]
           => after[Len(rows) + j].collection
                = (IF Truthy(C) THEN C ELSE StrV(""))

\* C14: a save_all that raises before its commit, statements of earlier
\* documents run or not, persists none of the batch and leaves the rows
\* that existed as they were; no connection that holds the batch's
\* statements is kept, in the context's slot or among its connections, so
\* no later call can commit them.
C14_BatchFailure ==
  [][(result'.op = "save_all" /\ result'.exc # "")
       => /\ rows' = rows
          /\ seqno' = seqno
          /\ g' = g
          /\ connections' = connections]_vars

\* The store right after a save_all that raised on its second document,
\* called without a host app on a table that holds a row.
C14_Witness ==
  /\ result.op = "save_all" /\ result.exc = "IntegrityError"
  /\ ~app
  /\ rows # <<>>

\* C15: with a host app and within one application context, _dbget
\* returns a connection, opening one only when the context has none yet:
\* the context never has more than one connection.
C15_ConnectionReuse ==
  (app /\ context)
    => /\ cn.exc = ""
       /\ Cardinality(DOMAIN cn.connections) = 1
       /\ Cardinality(DOMAIN connections) <= 1

StaleDocuments ==
  { Document(IntV(0), Absent, StrV("One")),
    Document(StrV("2"), Absent, StrV("One")),
    Document(Absent, StrV(""), StrV("One")) }

\* The rows get(C) selects.
Selected(C) ==
  IF Truthy(C) THEN SQL_SELECT_COLLECTION(db, C) ELSE SQL_SELECT_ALL(db)

\* C17: every document get or get_by_id returns has _id equal to the id
\* column and _collection equal to the collection column of the row it was
\* decoded from, whatever the stored blob holds under those keys: also for
\* a document saved with _id 0, with the text of an id, or with an empty
\* _collection and a collection argument.
C17_ReadInjection ==
  /\ \A C \in GetCollections :
       LET got == get(backend, db, C, NoQuery)
       IN /\ Len(got.rv) = Len(Selected(C))
          /\ \A i \in 1..Len(got.rv) :
               /\ got.rv[i]["_id"] = IntV(Selected(C)[i].id)
               /\ got.rv[i]["_collection"] = Selected(C)[i].collection
          /\ \A q \in Queries :
               \A d \in {get(backend, db, C, q).rv[i] :
                           i \in 1..Len(get(backend, db, C, q).rv)} :
                 \E i \in 1..Len(got.rv) : got.rv[i] = d
  /\ \A k \in RowIds(rows) :
       LET got == get_by_id(backend, db, IntV(k))
       IN /\ Len(got.rv) = 1
          /\ got.rv[1]["_id"] = IntV(k)
          /\ got.rv[1]["_collection"] = RowOf(rows, k).collection
  /\ \A D \in StaleDocuments :
       LET out == save(db, D, StrV("b"))
           row == IF Truthy(dict_get(D, "_id", None))
                    THEN RowOf(out.db.rows, py_int(D["_id"]))
                    ELSE WrittenRow(rows, out.db.rows, D)
           got == get_by_id(backend, out.db, IntV(row.id))
       IN /\ row.document = json_dumps(D)
          /\ Len(got.rv) = 1
          /\ got.rv[1]["_id"] = IntV(row.id)
          /\ got.rv[1]["_collection"] = row.collection

\* The store right after a get, holding a row whose blob says _id 0 and
\* whose id is not 0.
C17_Witness ==
  /\ result.op = "get" /\ result.exc = ""
  /\ \E i \in 1..Len(rows) :
       /\ dict_get(json_loads(rows[i].document), "_id", None) = IntV(0)
       /\ rows[i].id # 0

\* save(D, C) on a table with no row k makes row k, holding D, and leaves
\* the other rows alone.
CreatesRow(D, C, k) ==
  LET out == save(db, D, C)
  IN /\ out.exc = ""
     /\ HasId(out.db.rows, k)
     /\ RowOf(out.db.rows, k).document = json_dumps(D)
     /\ SelectSeq(out.db.rows, LAMBDA r : r.id # k) = rows

\* C18 as claimed: save of a document carrying _id = k when no row k
\* exists creates a row with exactly id k that holds the document.
C18_UpsertAbsent_AsClaimed ==
  \A k \in 0..MaxId, C \in CollectionArgs :
    ~HasId(rows, k)
      => CreatesRow(Document(IntV(k), Absent, StrV("One")), C, k)

\* C18, amended: the same for every k other than 0, given as an integer
\* or as its text.
C18_UpsertAbsent ==
  \A k \in 1..MaxId, C \in CollectionArgs :
    ~HasId(rows, k)
      => /\ CreatesRow(Document(IntV(k), Absent, StrV("One")), C, k)
         /\ CreatesRow(Document(StrV(Digits[k + 1]), StrV("a"), Absent), C, k)

\* The store right after a save that made row 2, of a document carrying
\* _id 2, in a table that has no row 1.
C18_Witness ==
  /\ result.op = "save" /\ result.exc = ""
  /\ RowIds(rows) = {2}
  /\ dict_get(json_loads(rows[1].document), "_id", None) = IntV(2)

\* C19: since the last _dbinit, and whatever save, save_all, delete and
\* delete_by_id calls were made, the id a save or a save_all gives a
\* document without _id is larger than every id a row of the table has had,
\* those of deleted rows and of rows saved under an _id of their own among
\* them.
C19_IdsNeverReused ==
  /\ \A k \in RowIds(rows) : k <= high
  /\ \A D \in NewBatchDocuments, C \in CollectionArgs :
       /\ \A k \in RowIds(save(db, D, C).db.rows) \ RowIds(rows) : k > high
       /\ RowIds(save(db, D, C).db.rows) # RowIds(rows)
       /\ \A k \in RowIds(save_all(db, <<D, D>>, C).db.rows) \ RowIds(rows) :
            k > high
       /\ Cardinality(RowIds(save_all(db, <<D, D>>, C).db.rows))
            = Len(rows) + 2

\* The store right after a save gave id 2 to a document without _id, row 1
\* having been deleted.
C19_Witness ==
  /\ result.op = "save" /\ result.exc = ""
  /\ RowIds(rows) = {2}
  /\ high = 2
  /\ "_id" \notin DOMAIN json_loads(rows[1].document)

====
